---- MODULE Spec2Model ----
(***************************************************************************)
(* The watchdog of gonetmon (src/params.go, second half of the file): a    *)
(* time-windowed hit cache owned by one command loop that selects among    *)
(* the shutdown signal, a ticker and the push channel, and publishes       *)
(* alert / recovery messages on a one-slot channel created in Sniff        *)
(* (src/main.go).                                                          *)
(*                                                                         *)
(* Around it: Sniff (src/main.go), which registers and starts the stages   *)
(* and joins them after the shutdown signal, and the Collector with its    *)
(* capturePackets goroutines (src/collector.go).                           *)
(*                                                                         *)
(* Time is a bounded integer clock.  Producers take a timestamp and then   *)
(* call AddHit, so hits of different producers can reach the push channel  *)
(* out of timestamp order.                                                 *)
(***************************************************************************)
EXTENDS Integers, Sequences, FiniteSets

\* ------------------------------------------------------------------ bounds
MaxTime      == 3    \* the clock runs over 0..MaxTime
NProducers   == 2    \* goroutines calling AddHit
MaxHits      == 2    \* AddHit calls per producer
MaxWindow    == 2    \* AlertSpan is drawn from 1..MaxWindow
MaxThreshold == 2    \* AlertThreshold is drawn from 1..MaxThreshold

WatchdogBufSize == 1 \* parameters.WatchdogBufSize: capacity of cache.push
WatchdogTick == 1    \* parameters.WatchdogTick: ticker period, in clock units
NDevices     == 2    \* network devices the Collector captures on
PacketChanCap == 1   \* capacity of packetChan (1000 in Sniff, scaled down)
MaxFires     == 2    \* times the shutdown broadcast is fired

\* --------------------------------------------------------------- constants
AlertChanCap    == 1    \* capacity of alertChan
TickerChanCap   == 1    \* capacity of time.Ticker's channel C
ZeroTime        == -1   \* time.Time{}: earlier than every clock value
NoTick          == ZeroTime   \* history only: no eviction pass was the last command

Producers == 1..NProducers
Devices   == 1..NDevices
Stages    == {"collector", "monitor", "command"}

VARIABLES
    now,          \* wall clock
    timeFrame,    \* Watchdog.timeFrame (AlertSpan)
    threshold,    \* Watchdog.threshold (AlertThreshold)
    list,         \* cache.list, front first
    size,         \* cache.size
    alert,        \* Watchdog.alert
    push,         \* cache.push, the buffered submission channel
    tickC,        \* ticker.C
    alertChan,    \* the alert channel
    syncChan,     \* "open" or "closed": syn.syncChan
    wg,           \* syn.wg counter
    pc,           \* watchdog: "new" (not constructed), "start" (goroutine
                  \* spawned), "select", "verify" (blocked in the send), "done",
                  \* "panic" (the process died in time.NewTicker)
    tick,         \* Watchdog.tick (WatchdogTick)
    sniff,        \* Sniff's position in SniffOrder
    stage,        \* stage[s]: "unspawned", "running", "done"; the collector
                  \* also "waitSubs" (in its wg.Wait)
    capt,         \* capt[d]: capturePackets on device d: "unspawned",
                  \* "capturing", "sending" (in packetChan <- msg), "exited"
    handles,      \* handles[d]: "open" or "closed"
    subs,         \* the Collector's own WaitGroup counter
    packetChan,   \* number of packets buffered in packetChan
    fires,        \* times the shutdown broadcast was fired
    outbox,       \* the message verify is blocked sending, <<>> if none
    prod,         \* prod[p]: "idle" or "sending" (inside AddHit)
    stamp,        \* stamp[p]: the timestamp producer p passes to AddHit (0 when idle)
    calls,        \* calls[p]: AddHit calls of p that returned
    display,      \* consumer of alertChan: "unspawned", "running" or "stopped"
    \* history, written but never read by the program
    sentLog,      \* messages whose send on alertChan completed, in order
    flipLog,      \* every new value the alert flag took, in order
    pushedLog,    \* timestamps of the pushes the loop handled, in order
    submitted,    \* timestamps whose AddHit returned, in channel order
    nEvicted,     \* elements removed by evict so far
    evictedAt,    \* tick time of the eviction pass, if the last command handled
                  \* was a tick; NoTick otherwise
    late,         \* producers whose current AddHit call began after the loop exited
    lateSent      \* sends of such calls that completed

vars == <<now, timeFrame, threshold, tick, sniff, stage, capt, handles, subs,
          packetChan, fires, list, size, alert, push, tickC, alertChan,
          syncChan, wg, pc, outbox, prod, stamp, calls, display,
          sentLog, flipLog, pushedLog, submitted, nEvicted, evictedAt, late, lateSent>>

cacheVars == <<list, size, alert>>
histVars  == <<sentLog, flipLog, pushedLog, submitted, nEvicted, evictedAt, late, lateSent>>
prodVars  == <<prod, stamp, calls>>
confVars  == <<timeFrame, threshold, tick>>
lifeVars  == <<sniff, stage, capt, handles, subs, packetChan>>
engineVars == <<now, cacheVars, push, tickC, alertChan, outbox, prodVars, histVars>>

\* ----------------------------------------------------------------- helpers
Front(s) == s[1]

\* ------------------------------------------------------------ buildAlertMsg
\* The body is fmt.Sprintf over the format's arguments: the hit count
\* (Hits() = cache.size) and the time for an alert, the time alone for a
\* recovery.  The timestamp field is always the zero time.
buildAlertMsg(sz, recovery, t) ==
    [recovery  |-> recovery,
     body      |-> IF recovery THEN <<t>> ELSE <<sz, t>>,
     timestamp |-> ZeroTime]

\* ------------------------------------------------------------------- verify
\* verify as it would be if a tick or push that confirms Alerting sent the
\* alert again.
verifyResend(lst, sz, al, thr, t) ==
    IF Len(lst) <= 0
    THEN IF al
         THEN [alert |-> FALSE, out |-> <<buildAlertMsg(sz, TRUE, t)>>]
         ELSE [alert |-> al, out |-> <<>>]
    ELSE IF sz >= thr
         THEN [alert |-> TRUE, out |-> <<buildAlertMsg(sz, FALSE, t)>>]
         ELSE IF al
              THEN [alert |-> FALSE, out |-> <<buildAlertMsg(sz, TRUE, t)>>]
              ELSE [alert |-> al, out |-> <<>>]

\* verify as it would be if an empty cache returned at once, without the
\* de-escalation.
verifyEmptyReturns(lst, sz, al, thr, t) ==
    IF Len(lst) <= 0
    THEN [alert |-> al, out |-> <<>>]
    ELSE IF sz >= thr
         THEN IF ~al
              THEN [alert |-> TRUE, out |-> <<buildAlertMsg(sz, FALSE, t)>>]
              ELSE [alert |-> al, out |-> <<>>]
         ELSE IF al
              THEN [alert |-> FALSE, out |-> <<buildAlertMsg(sz, TRUE, t)>>]
              ELSE [alert |-> al, out |-> <<>>]

\* verify as it would be if the threshold test were strict (size > threshold).
verifyStrict(lst, sz, al, thr, t) ==
    IF Len(lst) <= 0
    THEN IF al
         THEN [alert |-> FALSE, out |-> <<buildAlertMsg(sz, TRUE, t)>>]
         ELSE [alert |-> al, out |-> <<>>]
    ELSE IF sz > thr
         THEN IF ~al
              THEN [alert |-> TRUE, out |-> <<buildAlertMsg(sz, FALSE, t)>>]
              ELSE [alert |-> al, out |-> <<>>]
         ELSE IF al
              THEN [alert |-> FALSE, out |-> <<buildAlertMsg(sz, TRUE, t)>>]
              ELSE [alert |-> al, out |-> <<>>]

\* verify as it would be if the escalation sent the alert without recording
\* the flag.
verifyForgetsAlert(lst, sz, al, thr, t) ==
    IF Len(lst) <= 0
    THEN IF al
         THEN [alert |-> FALSE, out |-> <<buildAlertMsg(sz, TRUE, t)>>]
         ELSE [alert |-> al, out |-> <<>>]
    ELSE IF sz >= thr
         THEN IF ~al
              THEN [alert |-> al, out |-> <<buildAlertMsg(sz, FALSE, t)>>]
              ELSE [alert |-> al, out |-> <<>>]
         ELSE IF al
              THEN [alert |-> FALSE, out |-> <<buildAlertMsg(sz, TRUE, t)>>]
              ELSE [alert |-> al, out |-> <<>>]

\* Result: the new alert flag and the messages to send (none or one).
verify(lst, sz, al, thr, t) ==
    IF Len(lst) <= 0
    THEN IF al
         THEN [alert |-> FALSE, out |-> <<buildAlertMsg(sz, TRUE, t)>>]
         ELSE [alert |-> al, out |-> <<>>]
    ELSE IF sz >= thr
         THEN IF ~al
              THEN [alert |-> TRUE, out |-> <<buildAlertMsg(sz, FALSE, t)>>]
              ELSE [alert |-> al, out |-> <<>>]
         ELSE IF al
              THEN [alert |-> FALSE, out |-> <<buildAlertMsg(sz, TRUE, t)>>]
              ELSE [alert |-> al, out |-> <<>>]

\* -------------------------------------------------------------------- evict
\* The age test as it would be if an element aged exactly the window expired.
ExpiredAtWindow(t, e, window) == t - e >= window

\* Is the element older than the allowed window?
Expired(t, e, window) == t - e > window

\* evict as it would be if it removed elements without decrementing size.
RECURSIVE evictKeepsSize(_, _, _, _)
evictKeepsSize(lst, sz, t, window) ==
    IF Len(lst) <= 0
    THEN [list |-> lst, size |-> sz]
    ELSE IF Expired(t, Front(lst), window)
         THEN evictKeepsSize(Tail(lst), sz, t, window)
         ELSE [list |-> lst, size |-> sz]

\* Pops expired elements from the front, stopping at the first one that is
\* still inside the window.
RECURSIVE evict(_, _, _, _)
evict(lst, sz, t, window) ==
    IF Len(lst) <= 0
    THEN [list |-> lst, size |-> sz]
    ELSE IF Expired(t, Front(lst), window)
         THEN evict(Tail(lst), sz - 1, t, window)
         ELSE [list |-> lst, size |-> sz]

\* -------------------------------------------------------------------- Sniff
\* Sniff's steps as they would be if the command stage were started before
\* its addRoutine.
SniffOrderGoFirst ==
    << [op |-> "add",  who |-> "main"],
       [op |-> "add",  who |-> "collector"], [op |-> "go", who |-> "collector"],
       [op |-> "add",  who |-> "monitor"],   [op |-> "go", who |-> "monitor"],
       [op |-> "add",  who |-> "display"],   [op |-> "go", who |-> "display"],
       [op |-> "go",   who |-> "command"],   [op |-> "add", who |-> "command"],
       [op |-> "done", who |-> "main"],
       [op |-> "recv", who |-> "main"],
       [op |-> "wait", who |-> "main"] >>

\* Sniff's synchronisation steps, in program order: addRoutine for itself,
\* then addRoutine and go for each stage, then its own wg.Done, the receive
\* on syncChan and wg.Wait.
SniffOrder ==
    << [op |-> "add",  who |-> "main"],
       [op |-> "add",  who |-> "collector"], [op |-> "go", who |-> "collector"],
       [op |-> "add",  who |-> "monitor"],   [op |-> "go", who |-> "monitor"],
       [op |-> "add",  who |-> "display"],   [op |-> "go", who |-> "display"],
       [op |-> "add",  who |-> "command"],   [op |-> "go", who |-> "command"],
       [op |-> "done", who |-> "main"],
       [op |-> "recv", who |-> "main"],
       [op |-> "wait", who |-> "main"] >>

\* The position at which Sniff blocks on <-syn.syncChan, and the one after
\* its last step.
WaitSyncAt == CHOOSE i \in DOMAIN SniffOrder : SniffOrder[i].op = "recv"
Returned   == Len(SniffOrder) + 1

\* --------------------------------------------------------------------- Init
\* The running system: every stage is started, Sniff has released its own
\* registration and waits for the shutdown signal, the watchdog is in its
\* select.
Init ==
    /\ now = 0
    /\ timeFrame \in 1..MaxWindow
    /\ threshold \in 1..MaxThreshold
    /\ list = <<>>
    /\ size = 0
    /\ alert = FALSE
    /\ push = <<>>
    /\ tickC = <<>>
    /\ alertChan = <<>>
    /\ syncChan = "open"
    /\ wg = Cardinality(Stages) + 2
    /\ pc = "select"
    /\ tick = WatchdogTick
    /\ sniff = WaitSyncAt
    /\ stage = [s \in Stages |-> "running"]
    /\ capt = [d \in Devices |-> "capturing"]
    /\ handles = [d \in Devices |-> "open"]
    /\ subs = NDevices
    /\ packetChan = 0
    /\ fires = 0
    /\ outbox = <<>>
    /\ prod = [p \in Producers |-> "idle"]
    /\ stamp = [p \in Producers |-> 0]
    /\ calls = [p \in Producers |-> 0]
    /\ display = "running"
    /\ sentLog = <<>>
    /\ flipLog = <<>>
    /\ pushedLog = <<>>
    /\ submitted = <<>>
    /\ nEvicted = 0
    /\ evictedAt = NoTick
    /\ late = {}
    /\ lateSent = 0

\* -------------------------------------------------------------- environment
\* A panic ends the process: nothing runs after it.
Alive == pc # "panic"

\* The clock advances; the ticker sends the new time on its channel unless
\* the channel is full (a slow receiver loses the tick) or it was stopped.
Advance ==
    /\ Alive
    /\ now < MaxTime
    /\ now' = now + 1
    /\ tickC' = IF /\ pc \in {"select", "verify"}
                   /\ (now + 1) % tick = 0
                   /\ Len(tickC) < TickerChanCap
                THEN Append(tickC, now + 1)
                ELSE tickC
    /\ UNCHANGED <<confVars, lifeVars, fires, cacheVars, push, alertChan, syncChan, wg, pc, outbox,
                   prodVars, display, histVars>>

\* A producer reads the clock and calls AddHit with it.
CallAddHit(p) ==
    /\ prod[p] = "idle"
    /\ calls[p] < MaxHits
    /\ prod' = [prod EXCEPT ![p] = "sending"]
    /\ stamp' = [stamp EXCEPT ![p] = now]
    /\ late' = IF pc = "done" THEN late \cup {p} ELSE late
    /\ UNCHANGED <<now, confVars, lifeVars, fires, cacheVars, push, tickC, alertChan, syncChan, wg,
                   pc, outbox, calls, display, sentLog, flipLog, pushedLog,
                   submitted, nEvicted, evictedAt, lateSent>>

\* AddHit as it would be if a send on a full buffer replaced the pending hit
\* instead of blocking.
AddHitOverwrite(p) ==
    /\ prod[p] = "sending"
    /\ push' = IF Len(push) < WatchdogBufSize
               THEN Append(push, stamp[p])
               ELSE Append(SubSeq(push, 1, Len(push) - 1), stamp[p])
    /\ prod' = [prod EXCEPT ![p] = "idle"]
    /\ calls' = [calls EXCEPT ![p] = @ + 1]
    /\ submitted' = Append(submitted, stamp[p])
    /\ stamp' = [stamp EXCEPT ![p] = 0]
    /\ late' = late \ {p}
    /\ lateSent' = IF p \in late THEN lateSent + 1 ELSE lateSent
    /\ UNCHANGED <<now, confVars, lifeVars, fires, cacheVars, tickC, alertChan, syncChan, wg, pc,
                   outbox, display, sentLog, flipLog, pushedLog, nEvicted, evictedAt>>

\* AddHit as it would be if a full buffer made it return at once, the hit
\* being discarded.
AddHitDropWhenFull(p) ==
    /\ prod[p] = "sending"
    /\ push' = IF Len(push) < WatchdogBufSize
               THEN Append(push, stamp[p])
               ELSE push
    /\ prod' = [prod EXCEPT ![p] = "idle"]
    /\ calls' = [calls EXCEPT ![p] = @ + 1]
    /\ submitted' = Append(submitted, stamp[p])
    /\ stamp' = [stamp EXCEPT ![p] = 0]
    /\ late' = late \ {p}
    /\ lateSent' = IF p \in late THEN lateSent + 1 ELSE lateSent
    /\ UNCHANGED <<now, confVars, lifeVars, fires, cacheVars, tickC, alertChan, syncChan, wg, pc,
                   outbox, display, sentLog, flipLog, pushedLog, nEvicted, evictedAt>>

\* AddHit: w.cache.push <- t, which blocks while the buffer is full.
AddHit(p) ==
    /\ prod[p] = "sending"
    /\ Len(push) < WatchdogBufSize
    /\ push' = Append(push, stamp[p])
    /\ prod' = [prod EXCEPT ![p] = "idle"]
    /\ calls' = [calls EXCEPT ![p] = @ + 1]
    /\ submitted' = Append(submitted, stamp[p])
    /\ stamp' = [stamp EXCEPT ![p] = 0]
    /\ late' = late \ {p}
    /\ lateSent' = IF p \in late THEN lateSent + 1 ELSE lateSent
    /\ UNCHANGED <<now, confVars, lifeVars, fires, cacheVars, tickC, alertChan, syncChan, wg, pc,
                   outbox, display, sentLog, flipLog, pushedLog, nEvicted, evictedAt>>

\* The shutdown broadcast: syncChan is closed.
FireShutdown ==
    /\ Alive
    /\ syncChan = "open"
    /\ syncChan' = "closed"
    /\ fires' = fires + 1
    /\ UNCHANGED <<now, confVars, lifeVars, cacheVars, push, tickC, alertChan, wg, pc, outbox,
                   prodVars, display, histVars>>

\* The display stage receives alert messages while it runs ...
DisplayReceive ==
    /\ display = "running"
    /\ alertChan # <<>>
    /\ alertChan' = Tail(alertChan)
    /\ UNCHANGED <<now, confVars, lifeVars, fires, cacheVars, push, tickC, syncChan, wg, pc, outbox,
                   prodVars, display, histVars>>

\* ... and stops once it observes the shutdown signal, releasing its
\* registration.
DisplayStop ==
    /\ Alive
    /\ display = "running"
    /\ syncChan = "closed"
    /\ display' = "stopped"
    /\ wg' = wg - 1
    /\ UNCHANGED <<now, confVars, lifeVars, fires, cacheVars, push, tickC, alertChan,
                   syncChan, pc, outbox, prodVars, histVars>>

\* ------------------------------------------------------------- command loop
\* The loop as it would be if the shutdown case left the select but not the
\* for loop (an unlabelled break).
ListeningAfterBreak == pc \in {"select", "done"}

\* The loop is in its select.
Listening == pc = "select"

\* The tail of a handler: verify has set the flag; its message, if any, is
\* sent on alertChan, and the loop is back in the select unless the channel
\* is full, in which case it stays blocked in the send.
Publish(v) ==
    /\ alert' = v.alert
    /\ flipLog' = IF v.alert # alert THEN Append(flipLog, v.alert) ELSE flipLog
    /\ IF v.out = <<>>
       THEN /\ pc' = "select"
            /\ UNCHANGED <<alertChan, outbox, sentLog>>
       ELSE IF Len(alertChan) < AlertChanCap
            THEN /\ alertChan' = Append(alertChan, v.out[1])
                 /\ sentLog' = Append(sentLog, v.out[1])
                 /\ pc' = "select"
                 /\ UNCHANGED outbox
            ELSE /\ pc' = "verify"
                 /\ outbox' = v.out
                 /\ UNCHANGED <<alertChan, sentLog>>

\* The shutdown case as it would be if it published a final recovery when
\* the engine is alerting.
ShutdownCaseRecover ==
    /\ Listening
    /\ syncChan = "closed"
    /\ pc' = "done"
    /\ wg' = wg - 1
    /\ alert' = FALSE
    /\ flipLog' = IF alert THEN Append(flipLog, FALSE) ELSE flipLog
    /\ sentLog' = IF alert /\ Len(alertChan) < AlertChanCap
                  THEN Append(sentLog, buildAlertMsg(size, TRUE, now))
                  ELSE sentLog
    /\ alertChan' = IF alert /\ Len(alertChan) < AlertChanCap
                    THEN Append(alertChan, buildAlertMsg(size, TRUE, now))
                    ELSE alertChan
    /\ UNCHANGED <<now, confVars, lifeVars, fires, list, size, push, tickC, syncChan, outbox,
                   prodVars, display, pushedLog, submitted, nEvicted, evictedAt,
                   late, lateSent>>

\* case <-syn.syncChan: stop the ticker and leave the loop; the deferred
\* wg.Done runs as the goroutine returns.
ShutdownCase ==
    /\ Listening
    /\ syncChan = "closed"
    /\ pc' = "done"
    /\ wg' = wg - 1
    /\ UNCHANGED <<now, confVars, lifeVars, fires, cacheVars, push, tickC, alertChan, syncChan, outbox,
                   prodVars, display, histVars>>

\* The ticker case as it would be if the transition check ran before the
\* eviction.
TickCaseVerifyFirst ==
    /\ Listening
    /\ tickC # <<>>
    /\ LET t == Front(tickC)
           c == evict(list, size, t, timeFrame)
       IN /\ tickC' = Tail(tickC)
          /\ list' = c.list
          /\ size' = c.size
          /\ nEvicted' = nEvicted + (Len(list) - Len(c.list))
          /\ evictedAt' = t
          /\ Publish(verify(list, size, alert, threshold, now))
    /\ UNCHANGED <<now, confVars, lifeVars, fires, push, syncChan, wg, prodVars, display,
                   pushedLog, submitted, late, lateSent>>

\* case t := <-ticker.C: evict(t), then verify.
TickCase ==
    /\ Listening
    /\ tickC # <<>>
    /\ LET t == Front(tickC)
           c == evict(list, size, t, timeFrame)
       IN /\ tickC' = Tail(tickC)
          /\ list' = c.list
          /\ size' = c.size
          /\ nEvicted' = nEvicted + (Len(list) - Len(c.list))
          /\ evictedAt' = t
          /\ Publish(verify(c.list, c.size, alert, threshold, now))
    /\ UNCHANGED <<now, confVars, lifeVars, fires, push, syncChan, wg, prodVars, display,
                   pushedLog, submitted, late, lateSent>>

\* The push case as it would be if the transition check ran before the
\* size increment.
PushCaseVerifyFirst ==
    /\ Listening
    /\ push # <<>>
    /\ LET p == Front(push)
       IN /\ push' = Tail(push)
          /\ list' = Append(list, p)
          /\ size' = size + 1
          /\ pushedLog' = Append(pushedLog, p)
          /\ evictedAt' = NoTick
          /\ Publish(verify(Append(list, p), size, alert, threshold, now))
    /\ UNCHANGED <<now, confVars, lifeVars, fires, tickC, syncChan, wg, prodVars, display,
                   submitted, nEvicted, late, lateSent>>

\* case p := <-dog.cache.push: append, count, then verify.
PushCase ==
    /\ Listening
    /\ push # <<>>
    /\ LET p == Front(push)
       IN /\ push' = Tail(push)
          /\ list' = Append(list, p)
          /\ size' = size + 1
          /\ pushedLog' = Append(pushedLog, p)
          /\ evictedAt' = NoTick
          /\ Publish(verify(Append(list, p), size + 1, alert, threshold, now))
    /\ UNCHANGED <<now, confVars, lifeVars, fires, tickC, syncChan, wg, prodVars, display,
                   submitted, nEvicted, late, lateSent>>

\* verify's blocked send completes when the channel has room.
SendAlert ==
    /\ pc = "verify"
    /\ Len(alertChan) < AlertChanCap
    /\ alertChan' = Append(alertChan, outbox[1])
    /\ sentLog' = Append(sentLog, outbox[1])
    /\ outbox' = <<>>
    /\ pc' = "select"
    /\ UNCHANGED <<now, confVars, lifeVars, fires, cacheVars, push, tickC, syncChan, wg, prodVars,
                   display, flipLog, pushedLog, submitted, nEvicted, evictedAt,
                   late, lateSent>>

Next ==
    \/ Advance
    \/ \E p \in Producers : CallAddHit(p)
    \/ \E p \in Producers : AddHit(p)
    \/ FireShutdown
    \/ DisplayReceive
    \/ DisplayStop
    \/ ShutdownCase
    \/ TickCase
    \/ PushCase
    \/ SendAlert

Spec == Init /\ [][Next]_vars

\* The engine while no shutdown is requested, under the scheduling the Go
\* runtime gives: the clock advances, every goroutine that can run does run,
\* a select case that stays ready is eventually taken, and the display keeps
\* receiving.
RunningNext ==
    \/ Advance
    \/ \E p \in Producers : CallAddHit(p)
    \/ \E p \in Producers : AddHit(p)
    \/ DisplayReceive
    \/ TickCase
    \/ PushCase
    \/ SendAlert

RunningSpec ==
    /\ Init
    /\ [][RunningNext]_vars
    /\ WF_vars(Advance)
    /\ \A p \in Producers : WF_vars(AddHit(p))
    /\ WF_vars(DisplayReceive)
    /\ WF_vars(TickCase)
    /\ WF_vars(PushCase)
    /\ WF_vars(SendAlert)

\* ---------------------------------------------------------------- lifecycle
\* Sniff: syn.addRoutine().
SniffAdd ==
    /\ Alive
    /\ sniff \in DOMAIN SniffOrder
    /\ SniffOrder[sniff].op = "add"
    /\ wg' = wg + 1
    /\ sniff' = sniff + 1
    /\ UNCHANGED <<confVars, engineVars, stage, capt, handles, subs, packetChan,
                   fires, syncChan, pc, display>>

\* Sniff: go Collector / Monitor / Display / command.
SniffGo ==
    /\ Alive
    /\ sniff \in DOMAIN SniffOrder
    /\ SniffOrder[sniff].op = "go"
    /\ LET who == SniffOrder[sniff].who
       IN IF who = "display"
          THEN display' = "running" /\ UNCHANGED stage
          ELSE stage' = [stage EXCEPT ![who] = "running"] /\ UNCHANGED display
    /\ sniff' = sniff + 1
    /\ UNCHANGED <<confVars, engineVars, capt, handles, subs, packetChan, fires,
                   syncChan, wg, pc>>

\* Sniff: syn.wg.Done() for itself.
SniffDone ==
    /\ Alive
    /\ sniff \in DOMAIN SniffOrder
    /\ SniffOrder[sniff].op = "done"
    /\ wg' = wg - 1
    /\ sniff' = sniff + 1
    /\ UNCHANGED <<confVars, engineVars, stage, capt, handles, subs, packetChan,
                   fires, syncChan, pc, display>>

\* The receive as it would be if the signal were a value taken off the
\* channel by the first receiver.
SniffRecvConsumes ==
    /\ Alive
    /\ sniff \in DOMAIN SniffOrder
    /\ SniffOrder[sniff].op = "recv"
    /\ syncChan = "closed"
    /\ syncChan' = "open"
    /\ sniff' = sniff + 1
    /\ UNCHANGED <<confVars, engineVars, stage, capt, handles, subs, packetChan,
                   fires, wg, pc, display>>

\* Sniff: <-syn.syncChan, which returns once the channel is closed.
SniffRecv ==
    /\ Alive
    /\ sniff \in DOMAIN SniffOrder
    /\ SniffOrder[sniff].op = "recv"
    /\ syncChan = "closed"
    /\ sniff' = sniff + 1
    /\ UNCHANGED <<confVars, engineVars, stage, capt, handles, subs, packetChan,
                   fires, syncChan, wg, pc, display>>

\* Sniff: syn.wg.Wait(), which returns once the counter is zero.
SniffWait ==
    /\ Alive
    /\ sniff \in DOMAIN SniffOrder
    /\ SniffOrder[sniff].op = "wait"
    /\ wg = 0
    /\ sniff' = sniff + 1
    /\ UNCHANGED <<confVars, engineVars, stage, capt, handles, subs, packetChan,
                   fires, syncChan, wg, pc, display>>

\* NewWatchdog as it would be without the addRoutine before the go statement.
NewWatchdogUnregistered ==
    /\ stage["monitor"] = "running"
    /\ pc = "new"
    /\ pc' = "start"
    /\ UNCHANGED <<confVars, engineVars, lifeVars, fires, syncChan, wg, display>>

\* NewWatchdog, called by the monitor stage: the struct is filled from the
\* parameters as they are, the goroutine is registered and spawned, and the
\* watchdog is returned.  There is no failure return.
NewWatchdog ==
    /\ stage["monitor"] = "running"
    /\ pc = "new"
    /\ wg' = wg + 1
    /\ pc' = "start"
    /\ UNCHANGED <<confVars, engineVars, lifeVars, fires, syncChan, display>>

\* The goroutine's first statements: defer syn.wg.Done(), then
\* time.NewTicker(dog.tick), which panics on a non-positive period; the
\* deferred Done runs and the process dies.
StartLoop ==
    /\ pc = "start"
    /\ IF tick <= 0
       THEN pc' = "panic" /\ wg' = wg - 1
       ELSE pc' = "select" /\ UNCHANGED wg
    /\ UNCHANGED <<confVars, engineVars, lifeVars, fires, syncChan, display>>

\* The shutdown broadcast fired again after it already fired.
FireAgain ==
    /\ Alive
    /\ syncChan = "closed"
    /\ fires < MaxFires
    /\ fires' = fires + 1
    /\ UNCHANGED <<confVars, engineVars, lifeVars, syncChan, wg, pc, display>>

\* Collector's loop over the devices, one iteration: wg.Add(1), addFilter,
\* whose failure closes the handle, and go capturePackets in either case.
CollectorSetup(d) ==
    /\ Alive
    /\ stage["collector"] = "running"
    /\ capt[d] = "unspawned"
    /\ \A e \in Devices : e < d => capt[e] # "unspawned"
    /\ subs' = subs + 1
    /\ \E h \in {"open", "closed"} : handles' = [handles EXCEPT ![d] = h]
    /\ capt' = [capt EXCEPT ![d] = "capturing"]
    /\ UNCHANGED <<confVars, engineVars, sniff, stage, packetChan, fires,
                   syncChan, wg, pc, display>>

\* Collector: <-syncChan, then closeDevices, then it waits for its
\* capture goroutines.
CollectorSync ==
    /\ Alive
    /\ stage["collector"] = "running"
    /\ \A d \in Devices : capt[d] # "unspawned"
    /\ syncChan = "closed"
    /\ handles' = [d \in Devices |-> "closed"]
    /\ stage' = [stage EXCEPT !["collector"] = "waitSubs"]
    /\ UNCHANGED <<confVars, engineVars, sniff, capt, subs, packetChan, fires,
                   syncChan, wg, pc, display>>

\* Collector: wg.Wait() returns, then syncwg.Done().
CollectorDone ==
    /\ Alive
    /\ stage["collector"] = "waitSubs"
    /\ subs = 0
    /\ stage' = [stage EXCEPT !["collector"] = "done"]
    /\ wg' = wg - 1
    /\ UNCHANGED <<confVars, engineVars, sniff, capt, handles, subs, packetChan,
                   fires, syncChan, pc, display>>

\* capturePackets: the packet source delivers a packet that passes the
\* filter; the goroutine goes on to send it.
CaptureRecv(d) ==
    /\ Alive
    /\ capt[d] = "capturing"
    /\ handles[d] = "open"
    /\ capt' = [capt EXCEPT ![d] = "sending"]
    /\ UNCHANGED <<confVars, engineVars, sniff, stage, handles, subs, packetChan,
                   fires, syncChan, wg, pc, display>>

\* capturePackets: packetChan <- packetMsg{...}, which blocks while the
\* channel is full.
CaptureSend(d) ==
    /\ Alive
    /\ capt[d] = "sending"
    /\ packetChan < PacketChanCap
    /\ packetChan' = packetChan + 1
    /\ capt' = [capt EXCEPT ![d] = "capturing"]
    /\ UNCHANGED <<confVars, engineVars, sniff, stage, handles, subs, fires,
                   syncChan, wg, pc, display>>

\* capturePackets: the range over Packets() ends because the handle was
\* closed; the deferred wg.Done runs.
CaptureExit(d) ==
    /\ Alive
    /\ capt[d] = "capturing"
    /\ handles[d] = "closed"
    /\ capt' = [capt EXCEPT ![d] = "exited"]
    /\ subs' = subs - 1
    /\ UNCHANGED <<confVars, engineVars, sniff, stage, handles, packetChan,
                   fires, syncChan, wg, pc, display>>

\* The monitor stage takes a packet off packetChan while it runs ...
MonitorRecv ==
    /\ Alive
    /\ stage["monitor"] = "running"
    /\ packetChan > 0
    /\ packetChan' = packetChan - 1
    /\ UNCHANGED <<confVars, engineVars, sniff, stage, capt, handles, subs,
                   fires, syncChan, wg, pc, display>>

\* ... and a stage other than the collector (monitor, command) stops once it
\* observes the shutdown signal, releasing its registration.
StageExit(s) ==
    /\ Alive
    /\ s # "collector"
    /\ stage[s] = "running"
    /\ syncChan = "closed"
    /\ stage' = [stage EXCEPT ![s] = "done"]
    /\ wg' = wg - 1
    /\ UNCHANGED <<confVars, engineVars, sniff, capt, handles, subs, packetChan,
                   fires, syncChan, pc, display>>

\* The whole program from the entry of Sniff, for the valid parameters and
\* for each way of making one of them zero or negative.  No hits are
\* submitted.
BadValues == {-1, 0}
Configs ==
    {<<MaxWindow, MaxThreshold, WatchdogTick>>}
    \cup {<<b, MaxThreshold, WatchdogTick>> : b \in BadValues}
    \cup {<<MaxWindow, 0, WatchdogTick>>}
    \cup {<<MaxWindow, MaxThreshold, b>> : b \in BadValues}

LifeInit ==
    /\ now = 0
    /\ \E c \in Configs : timeFrame = c[1] /\ threshold = c[2] /\ tick = c[3]
    /\ list = <<>>
    /\ size = 0
    /\ alert = FALSE
    /\ push = <<>>
    /\ tickC = <<>>
    /\ alertChan = <<>>
    /\ syncChan = "open"
    /\ wg = 0
    /\ pc = "new"
    /\ sniff = 1
    /\ stage = [s \in Stages |-> "unspawned"]
    /\ capt = [d \in Devices |-> "unspawned"]
    /\ handles = [d \in Devices |-> "open"]
    /\ subs = 0
    /\ packetChan = 0
    /\ fires = 0
    /\ outbox = <<>>
    /\ prod = [p \in Producers |-> "idle"]
    /\ stamp = [p \in Producers |-> 0]
    /\ calls = [p \in Producers |-> 0]
    /\ display = "unspawned"
    /\ sentLog = <<>>
    /\ flipLog = <<>>
    /\ pushedLog = <<>>
    /\ submitted = <<>>
    /\ nEvicted = 0
    /\ evictedAt = NoTick
    /\ late = {}
    /\ lateSent = 0

LifeNext ==
    \/ SniffAdd
    \/ SniffGo
    \/ SniffDone
    \/ SniffRecv
    \/ SniffWait
    \/ NewWatchdog
    \/ StartLoop
    \/ FireShutdown
    \/ FireAgain
    \/ \E d \in Devices : CollectorSetup(d)
    \/ CollectorSync
    \/ CollectorDone
    \/ \E d \in Devices : CaptureRecv(d)
    \/ \E d \in Devices : CaptureSend(d)
    \/ \E d \in Devices : CaptureExit(d)
    \/ MonitorRecv
    \/ \E s \in Stages : StageExit(s)
    \/ DisplayStop
    \/ Advance
    \/ TickCase
    \/ ShutdownCase

LifeSpec == LifeInit /\ [][LifeNext]_vars

\* ================================================================== claims
\* Registrations of the stages other than the watchdog that are not yet
\* released: Sniff's own (between its addRoutine and its wg.Done) and one per
\* stage between its addRoutine and its exit.
AddedAt(who) == CHOOSE i \in DOMAIN SniffOrder :
                    SniffOrder[i] = [op |-> "add", who |-> who]
DoneAt == CHOOSE i \in DOMAIN SniffOrder : SniffOrder[i].op = "done"

Registered ==
    (IF sniff > AddedAt("main") /\ sniff <= DoneAt THEN 1 ELSE 0)
    + Cardinality({s \in Stages : sniff > AddedAt(s) /\ stage[s] # "done"})
    + (IF sniff > AddedAt("display") /\ display # "stopped" THEN 1 ELSE 0)

IsSorted(s) == \A i \in 1..(Len(s) - 1) : s[i] <= s[i + 1]

\* Messages sent so far, the one verify is blocked sending included.
SentAll == sentLog \o outbox

\* Handled pushes whose timestamp is inside the window at time T.
InWindow(T) == {i \in DOMAIN pushedLog : T - pushedLog[i] <= timeFrame}

AllReturned == \A p \in Producers : calls[p] = MaxHits

RECURSIVE SumCalls(_, _)
SumCalls(f, S) ==
    IF S = {} THEN 0
    ELSE LET p == CHOOSE x \in S : TRUE IN f[p] + SumCalls(f, S \ {p})

\* C1: when the pushes handled so far came with weakly increasing timestamps
\* and the last command handled was a tick at time T, the cache size equals
\* the number of pushed timestamps t with T - t <= window (an element aged
\* exactly the window is kept, an older one is gone).
C1_SizeAfterEvict ==
    (evictedAt # NoTick /\ IsSorted(pushedLog))
        => /\ size = Cardinality(InWindow(evictedAt))
           /\ Len(list) = size

\* C1 witness: an eviction pass over sorted pushes removed an element and
\* kept one whose age is exactly the window.
C1_Witness ==
    /\ evictedAt # NoTick
    /\ IsSorted(pushedLog)
    /\ nEvicted > 0
    /\ \E i \in DOMAIN list : evictedAt - list[i] = timeFrame

\* C2: the messages sent (the one of a blocked send included) are, in order,
\* exactly the changes of the alert flag: an alert for each change to true, a
\* recovery for each change to false, alternating and starting with an
\* alert; a push or tick that leaves the flag as it was sends nothing.
C2_OneMessagePerFlip ==
    /\ (pc # "verify" => outbox = <<>>)
    /\ Len(outbox) <= 1
    /\ Len(SentAll) = Len(flipLog)
    /\ \A i \in DOMAIN SentAll :
          /\ SentAll[i].recovery = ~flipLog[i]
          /\ SentAll[i].recovery = (i % 2 = 0)

\* C2 witness: alert, recovery and alert were sent, and the last command was
\* a tick that found the engine alerting and confirmed it without a message.
C2_Witness ==
    /\ Len(sentLog) = 3
    /\ outbox = <<>>
    /\ evictedAt # NoTick
    /\ alert
    /\ size >= threshold

\* C3: whenever the loop is back in its select, the alert flag is true
\* exactly when size >= threshold (threshold >= 1), and it is false whenever
\* the cache is empty.
C3_FlagTracksSize ==
    (pc = "select" /\ threshold >= 1)
        => /\ alert <=> (size >= threshold)
           /\ (list = <<>> => ~alert)

\* C3 witness: the loop waits, alerting with size at the threshold, after an
\* earlier recovery.
C3_Witness ==
    /\ pc = "select"
    /\ alert
    /\ size = threshold
    /\ Len(flipLog) = 3

\* C4 (as amended): with no eviction so far and threshold k >= 1, fewer than
\* k handled pushes leave the engine Normal with no message; from the k-th
\* handled push on it is Alerting and exactly one message exists, an alert
\* reporting hit count k; and every alert message is produced by a push step
\* and reports the size after that push and the clock at the moment the push
\* is handled (time.Now()), not the pushed timestamp.
C4_FirstAlert ==
    /\ [](nEvicted = 0 =>
            IF Len(pushedLog) < threshold
            THEN SentAll = <<>> /\ ~alert
            ELSE /\ alert
                 /\ Len(SentAll) = 1
                 /\ ~SentAll[1].recovery
                 /\ SentAll[1].body[1] = threshold
                 /\ SentAll[1].timestamp = ZeroTime)
    /\ [][(alert' /\ ~alert) =>
            /\ push # <<>>
            /\ pushedLog' = Append(pushedLog, Front(push))
            /\ SentAll' = Append(SentAll, buildAlertMsg(size', FALSE, now))]_vars

\* C4 as stated: the first alert reports hit count k and the timestamp of the
\* k-th pushed hit.
C4_ReportsHitTime ==
    (nEvicted = 0 /\ Len(pushedLog) >= threshold)
        => /\ Len(SentAll) = 1
           /\ SentAll[1].body = <<threshold, pushedLog[threshold]>>

\* C4 witness: threshold 2, no eviction, more than two pushes handled, one
\* alert sent, reporting a time later than the second hit's timestamp.
C4_Witness ==
    /\ nEvicted = 0
    /\ threshold = 2
    /\ Len(pushedLog) > threshold
    /\ Len(sentLog) = 1
    /\ sentLog[1].body[1] = 2
    /\ sentLog[1].body[2] > pushedLog[threshold]

\* The newest timestamp in the cache.
Newest == CHOOSE t \in {list[i] : i \in DOMAIN list} :
              \A i \in DOMAIN list : list[i] <= t

\* No further hit will be pushed: every producer made all its calls and the
\* channel is drained.
Quiet == AllReturned /\ push = <<>>

\* The time has passed the newest hit's timestamp plus the window and a tick
\* carrying such a time is pending or still to come before the clock's bound.
PastWindow ==
    /\ list # <<>>
    /\ \/ tickC # <<>> /\ Front(tickC) > Newest + timeFrame
       \/ /\ tickC = <<>>
          /\ now >= Newest + timeFrame
          /\ \E T \in (now + 1)..MaxTime : T % tick = 0

\* C5: with no shutdown, the engine Alerting, no further hit and the time
\* past the newest timestamp plus the window, a tick eventually drains the
\* cache to size 0 and the engine is Normal with the recovery sent; from
\* Alerting with no further hit at most one message follows and it is a
\* recovery, and once Normal with no further hit no message follows.
C5_Recovers ==
    /\ (alert /\ Quiet /\ PastWindow)
          ~> (~alert /\ list = <<>> /\ size = 0 /\ pc = "select"
                /\ sentLog # <<>> /\ sentLog[Len(sentLog)].recovery
                /\ Len(sentLog) = Len(flipLog))
    /\ [][(Quiet /\ alert) =>
            \/ SentAll' = SentAll /\ alert'
            \/ /\ ~alert'
               /\ Len(SentAll') = Len(SentAll) + 1
               /\ SentAll'[Len(SentAll')].recovery]_vars
    /\ [][(Quiet /\ ~alert) => (SentAll' = SentAll /\ ~alert')]_vars

\* C5 witness: all hits were pushed, the engine alerted, and a tick later
\* than every timestamp plus the window drained the cache; the engine is
\* Normal and the last message sent is the recovery.
C5_Witness ==
    /\ Quiet
    /\ ~alert
    /\ list = <<>>
    /\ pc = "select"
    /\ evictedAt # NoTick
    /\ \A i \in DOMAIN pushedLog : evictedAt > pushedLog[i] + timeFrame
    /\ sentLog # <<>>
    /\ sentLog[Len(sentLog)].recovery
    /\ ~sentLog[1].recovery

\* C6: as long as nothing was evicted, the hits whose AddHit returned are
\* exactly the handled pushes followed by the pending ones, each once and in
\* channel order, the cache holds exactly the handled ones, and once all
\* N*M calls returned and the channel is empty the size is N*M.
C6_NoLostHit ==
    (nEvicted = 0)
        => /\ pushedLog \o push = submitted
           /\ list = pushedLog
           /\ size = Len(list)
           /\ Len(submitted) = SumCalls(calls, Producers)
           /\ (AllReturned /\ push = <<>>) => size = NProducers * MaxHits

\* C6 witness: all N*M calls returned, nothing evicted, all hits cached.
C6_Witness ==
    /\ AllReturned
    /\ push = <<>>
    /\ nEvicted = 0
    /\ syncChan = "open"
    /\ size = NProducers * MaxHits

\* C7: after an eviction pass at tick time T, every element still cached has
\* age T - t <= window, whatever order the hits arrived in.
C7_AllInWindow ==
    evictedAt # NoTick
        => \A i \in DOMAIN list : evictedAt - list[i] <= timeFrame

\* C8: once shutdown fired the loop can always still reach its exit: it is
\* done, or it can take a step, or its blocked send can still be unblocked by
\* the consumer.  (A state violating this is one the loop never leaves.)
C8_LoopCanStop ==
    syncChan = "closed"
        => \/ pc = "done" /\ wg = Registered
           \/ pc = "select"
           \/ pc = "verify" /\ (Len(alertChan) < AlertChanCap \/ display = "running")

\* C9: the step that observes shutdown, and every step after it, sends no
\* message and leaves the cache and the alert flag as they were (no recovery
\* is published even if the engine is alerting).
C9_SilentShutdown ==
    [][pc' = "done" =>
         /\ sentLog' = sentLog
         /\ outbox' = outbox
         /\ flipLog' = flipLog
         /\ Len(alertChan') <= Len(alertChan)
         /\ UNCHANGED <<list, size, alert>>]_vars

\* C9 witness: the loop exited while alerting and no recovery was published.
C9_Witness ==
    /\ pc = "done"
    /\ wg = Registered
    /\ alert
    /\ Len(sentLog) = 1
    /\ ~sentLog[1].recovery

\* C10: a hit whose AddHit call began after the loop exited stays in the
\* push channel for ever: it is never received, so once the loop is done the
\* handled pushes, the cache, its size, the alert flag and the messages never
\* change, and pending hits are never taken out of the channel.
C10_LateHitDropped ==
    /\ [](lateSent <= Len(push))
    /\ [][pc = "done" =>
            /\ UNCHANGED <<list, size, alert, pushedLog, sentLog, outbox>>
            /\ Len(push') >= Len(push)
            /\ (push # <<>> => Front(push') = Front(push))]_vars

\* C10 witness: a hit submitted after the exit sits in the channel, the
\* cache being empty and the engine Normal.
C10_Witness ==
    /\ pc = "done"
    /\ lateSent = 1
    /\ push # <<>>
    /\ list = <<>>
    /\ ~alert

\* C11: the push channel never holds more than WatchdogBufSize hits; an
\* AddHit returns only in a step that finds room in the channel and puts its
\* hit at the back; a pending hit leaves the channel only from the front and
\* into the cache; so every returned hit is still pending or was appended.
C11_Backpressure ==
    /\ [](/\ Len(push) <= WatchdogBufSize
          /\ pushedLog \o push = submitted)
    /\ [][/\ (calls' # calls)
                => (/\ Len(push) < WatchdogBufSize
                    /\ \E p \in Producers :
                           /\ prod[p] = "sending"
                           /\ push' = Append(push, stamp[p]))
          /\ (calls' = calls /\ push' # push)
                => (/\ push # <<>>
                    /\ push' = Tail(push)
                    /\ list' = Append(list, Front(push)))]_vars

\* C11 witness: a producer is blocked in AddHit on a full channel while
\* the loop runs, after earlier hits went through the channel into the cache.
C11_Witness ==
    /\ pc = "select"
    /\ syncChan = "open"
    /\ Len(push) = WatchdogBufSize
    /\ \E p \in Producers : prod[p] = "sending"
    /\ pushedLog # <<>>
    /\ list # <<>>

\* C15: a step that takes a tick leaves the cache as evict returns it and
\* decides the flag and the message from that evicted cache; a step that
\* takes a push leaves the list with the hit appended and size one higher and
\* decides from that; no step takes two commands; and while a handler is
\* still in its send, no push, tick or shutdown is handled and the cache does
\* not change.
C15_AtomicInOrder ==
    [][/\ (Len(tickC') < Len(tickC))
            => (LET c == evict(list, size, Front(tickC), timeFrame)
                    v == verify(c.list, c.size, alert, threshold, now)
                IN /\ pc = "select"
                   /\ list' = c.list
                   /\ size' = c.size
                   /\ alert' = v.alert
                   /\ sentLog' \o outbox' = SentAll \o v.out
                   /\ push' = push)
       /\ (Len(push') < Len(push))
            => (LET v == verify(Append(list, Front(push)), size + 1, alert,
                                threshold, now)
                IN /\ pc = "select"
                   /\ list' = Append(list, Front(push))
                   /\ size' = size + 1
                   /\ alert' = v.alert
                   /\ sentLog' \o outbox' = SentAll \o v.out
                   /\ Len(tickC') >= Len(tickC))
       /\ (pc = "verify")
            => (/\ pc' \in {"verify", "select"}
                /\ Len(push') >= Len(push)
                /\ Len(tickC') >= Len(tickC)
                /\ UNCHANGED <<list, size, alert>>
                /\ sentLog' \o outbox' = SentAll)]_vars

\* C15 witness: the last command handled was a tick whose eviction emptied
\* part of the cache, and the check of that same tick lowered the flag and
\* published the recovery.
C15_Witness ==
    /\ evictedAt # NoTick
    /\ nEvicted > 0
    /\ pc = "select"
    /\ flipLog = <<TRUE, FALSE>>
    /\ Len(sentLog) = 2
    /\ sentLog[2].recovery
    /\ sentLog[2].body = <<evictedAt>>

\* C18: whenever the loop waits in its select, size equals the length of
\* the list and is not negative (the unsigned counter did not wrap).
C18_SizeIsLen ==
    pc = "select" => (size = Len(list) /\ size >= 0)

\* C18 witness: the loop waits after pushes and evictions, with hits both
\* removed and still cached.
C18_Witness ==
    /\ pc = "select"
    /\ nEvicted > 0
    /\ size > 0
    /\ Len(pushedLog) = nEvicted + size

\* C19: with threshold >= 1, a step that handles a push does not lower the
\* flag and produces no recovery message; a step that handles a tick does not
\* raise the flag and produces no alert message.
C19_PushAlertsTickRecovers ==
    [][(threshold >= 1) =>
         /\ (Len(push') < Len(push))
              => (/\ alert => alert'
                  /\ \A i \in (Len(SentAll) + 1)..Len(SentAll') :
                         ~SentAll'[i].recovery)
         /\ (Len(tickC') < Len(tickC))
              => (/\ alert' => alert
                  /\ \A i \in (Len(SentAll) + 1)..Len(SentAll') :
                         SentAll'[i].recovery)]_vars

\* C19 witness: an alert was raised by a push and taken back by a tick, and
\* the engine alerts again on a later push.
C19_Witness ==
    /\ threshold >= 1
    /\ flipLog = <<TRUE, FALSE, TRUE>>
    /\ evictedAt = NoTick
    /\ Len(SentAll) = 3
    /\ ~SentAll[3].recovery

\* C20: a producer inside AddHit is never stuck behind a loop that has
\* terminated: once the loop is done, every producer still in its send finds
\* room in the push channel.  (In a state violating this the send can never
\* complete, since nothing receives from the channel any more.)
C20_AddHitReturnsAfterExit ==
    pc = "done"
        => \A p \in Producers :
               prod[p] = "sending" => Len(push) < WatchdogBufSize

\* C12: a watchdog whose window, threshold or tick is zero or negative is
\* rejected by NewWatchdog: its goroutine is never spawned, no loop runs with
\* the bad value and nothing panics.
BadConfig == timeFrame <= 0 \/ threshold <= 0 \/ tick <= 0

C12_BadConfigRejected ==
    BadConfig => pc \in {"new", "rejected"}

\* C13: Sniff is past its receive on syncChan only if the shutdown signal
\* fired, and it has returned from wg.Wait only if, besides, every stage it
\* started and the watchdog (if one was constructed) have released their
\* registrations: all have exited and the counter is zero.
C13_JoinAfterAll ==
    /\ sniff > WaitSyncAt => syncChan = "closed"
    /\ sniff = Returned
         => /\ wg = 0
            /\ \A s \in Stages : stage[s] = "done"
            /\ display = "stopped"
            /\ pc \in {"new", "done"}

\* C13 witness: Sniff has returned after a watchdog was constructed, ran
\* its loop and exited on shutdown.
C13_Witness ==
    /\ sniff = Returned
    /\ pc = "done"
    /\ evictedAt # NoTick

WatchdogLive == IF pc \in {"start", "select", "verify"} THEN 1 ELSE 0

RunningStages ==
    Cardinality({s \in Stages : stage[s] \in {"running", "waitSubs"}})
    + (IF display = "running" THEN 1 ELSE 0)
    + WatchdogLive

C16_CountIsRegistrations ==
    /\ \A s \in Stages : stage[s] # "unspawned" => sniff > AddedAt(s)
    /\ display # "unspawned" => sniff > AddedAt("display")
    /\ wg = Registered + WatchdogLive
    /\ wg >= 0
    /\ wg >= RunningStages
    /\ RunningStages > 0 => wg > 0

\* C16 witness: stages have been registered, started and some of them have
\* exited while others, the watchdog among them, still run.
C16_Witness ==
    /\ stage["monitor"] = "done"
    /\ stage["collector"] = "waitSubs"
    /\ pc = "select"
    /\ wg = 2

\* C17: after the shutdown signal the Collector can always still reach its
\* release: a capture goroutine that is inside its send on packetChan has
\* room in the channel, or the monitor stage is still there to make room.
\* (In a state violating this the send never completes, so the Collector's
\* wg.Wait and its syncwg.Done are never reached.)
C17_CollectorCanFinish ==
    (syncChan = "closed" /\ stage["collector"] # "done")
        => \A d \in Devices :
               capt[d] = "sending"
                   => (packetChan < PacketChanCap \/ stage["monitor"] # "done")
====
